---- MODULE Spec2Model ----
(***************************************************************************)
(* A model of the task-execution strategies of package run                 *)
(* (CancelOnFirstFinish, CancelOnFirstError, All), of ErrorList, and of    *)
(* the bounded ConcurrentRunner, as state machines over goroutine          *)
(* positions, channels and cancellation tokens.                            *)
(***************************************************************************)
EXTENDS Naturals, Sequences, FiniteSets

\* ------------------------------------------------------------------ bounds

\* Largest number of funcs passed to one strategy call.
MaxTasks == 2
\* Largest number of funcs offered to a ConcurrentRunner through Add.
MaxAdds == 2
\* Largest maxConcurrent a ConcurrentRunner is constructed with.
MaxConcurrent == 2
\* Largest Backoff.Retries of a Retry.
MaxRetries == 3
\* Largest Backoff.Delay of a Retry, in time units.
MaxDelay == 2
\* Largest Backoff.Factor of a Retry.
MaxFactor == 2
\* Number of concurrent callers of Fire, and of waiters, of a Trigger.
MaxFirers == 2
\* Largest number of Fire calls of one caller, and of waits of one waiter.
MaxRepeat == 2
\* Largest number of handles issued by one MultiTrigger.
MaxHandles == 3
\* Largest number of errors put into one ErrorList.
MaxErrs == 2
\* Number of calls of ContextWithSig, each with a ctx of its own.
MaxSigCalls == 2
\* Largest number of termination signals sent to the process.
MaxSignals == 2

VARIABLES
    strategy,      \* the entry point that was called
    funcs,         \* the funcs argument: one behaviour descriptor per task
    parentDone,    \* the caller's ctx is cancelled
    cancelled,     \* cancel() of the derived ctx has been called
    pc,            \* position of the calling goroutine
    spawned,       \* number of goroutines the for loop has launched
    gpc,           \* position of the goroutine launched for each func
    fnRet,         \* what run(ctx) returned in each goroutine
    err,           \* the caller's local variable err
    resultClosed,  \* the result channel has been closed (defer close(result))
    ret,           \* the value the call returned
    calls,         \* how many times each func has been invoked
    offered,       \* history: funcs in the order in which their outcome was offered
    accepted,      \* history: funcs whose send on result was received
    errorsCh,      \* All: content of the buffered errors channel
    errorsClosed,  \* All: the errors channel has been closed
    closerPc,      \* All: position of the goroutine running wg.Wait(); close(errors)
    list,          \* NewErrorListByChan: the local variable list
    maxConcurrent, \* concurrentRunner.maxConcurrent
    fns,           \* concurrentRunner.fns: content of the buffered channel
    fnsClosed,     \* concurrentRunner.fns has been closed
    closed,        \* concurrentRunner.closed has been closed
    mux,           \* concurrentRunner.mux: its holder, or "free"
    apc,           \* position of each Add call
    addDone,       \* the ctx passed to each Add call is cancelled
    added,         \* history: how each Add call ended
    cpc,           \* position of each Close call
    cret,          \* what each Close call returned
    dpc,           \* Run, queue consumer: position inside the for/select loop
    held,          \* Run, queue consumer: the fn received and not yet launched
    limit,         \* Run: number of elements in the limit channel
    wpc,           \* Run: position, then outcome, of the worker goroutine of each fn
    wcalls,        \* how many times each fn given to Add has been invoked
    errsClosed,    \* Run: the errs channel has been closed (defer close(errs))
    backoff,       \* Retry: the Backoff argument
    counter,       \* Retry: the local variable counter
    waited,        \* Retry: history, the time waited after each failed attempt
    waitArgs,      \* Retry: history, the durations passed to DefaultWaiter.Wait
    tdone,         \* Trigger: its wait-point is ready (the gate is open)
    tcloses,       \* Trigger: how many Fire calls opened the gate
    fpc,           \* Trigger: how many times each caller has called Fire
    twpc,          \* Trigger: position of each waiter
    tseen,         \* Trigger: how many times each waiter has observed it ready
    mdone,         \* MultiTrigger: for each issued handle, whether it has fired
    mfires,        \* MultiTrigger: history, the Fire calls made on each handle
    mwpc,          \* MultiTrigger: position of the waiter
    mseen,         \* MultiTrigger: how many times the waiter has observed it ready
    econs,         \* ErrorList: the constructor that is called
    eargs,         \* ErrorList: the slice passed to NewErrorList(errors...)
    echan,         \* ErrorList: what is left in the channel of NewErrorListByChan
    elist,         \* ErrorList: the list (list of NewErrorListByChan, then the result)
    epc,           \* ErrorList: position of the caller
    ebuf,          \* ErrorList.Error: buf
    efirst,        \* ErrorList.Error: first
    eidx,          \* ErrorList.Error: index of the range loop
    process,       \* ContextWithSig: the process is running, or how it died
    ambientDone,   \* ContextWithSig: for each call, its ctx is cancelled
    spc,           \* ContextWithSig: for each call, position of its goroutine
    registered,    \* ContextWithSig: signalCh is among the handlers of os/signal
    chBuf,         \* ContextWithSig: number of signals buffered in signalCh
    chClosed,      \* ContextWithSig: signalCh is closed
    sigCancelled,  \* ContextWithSig: cancel() of ctxWithCancel has been called
    signals,       \* ContextWithSig: number of termination signals received
    signalled      \* ContextWithSig: the calls made before a signal was received

stratVars == <<strategy, funcs, parentDone, cancelled, pc, spawned, gpc, fnRet,
               err, resultClosed, ret, calls, offered, accepted>>
allVars == <<errorsCh, errorsClosed, closerPc, list>>
runnerVars == <<maxConcurrent, fns, fnsClosed, closed, mux, apc, addDone, added,
                cpc, cret, dpc, held, limit, wpc, wcalls, errsClosed>>
retryVars == <<backoff, counter, waited, waitArgs>>
triggerVars == <<tdone, tcloses, fpc, twpc, tseen>>
multiVars == <<mdone, mfires, mwpc, mseen>>
errVars == <<econs, eargs, echan, elist, epc, ebuf, efirst, eidx>>
sigVars == <<process, ambientDone, spc, registered, chBuf, chClosed, sigCancelled,
             signals, signalled>>
libVars == <<triggerVars, multiVars, errVars, sigVars>>
vars == <<stratVars, allVars, runnerVars, retryVars, libVars>>

\* ------------------------------------------------------------ error values

\* The nil error.
Nil == [kind |-> "nil", id |-> 0]
\* context.Canceled, what ctx.Err() yields once ctx is cancelled.
Canceled == [kind |-> "canceled", id |-> 0]
\* The error func number t returns when it fails.
TaskErr(t) == [kind |-> "task", id |-> t]
\* errors.Wrap(err, "execute fn failed")
Wrap(e) == [kind |-> "wrapped", id |-> e.id]

\* errors.Wrapf(ctx, err, "wait %v failed", backoff.Delay): err stays its cause.
Wrapf(e) == [kind |-> "wrapped", id |-> e.id, cause |-> e.kind]
\* The kind of errors.Cause(e) for the errors a Retry returns.
CauseKind(e) == IF e.kind = "wrapped" THEN e.cause ELSE e.kind

\* ErrorList(errors): the conversion of a slice of errors to the ErrorList type.
NewErrorList(errors) == [kind |-> "ErrorList", id |-> 0, list |-> errors]

\* ----------------------------------------------------------------- tokens

Tasks == 1 .. Len(funcs)

\* Faulty variant of DerivedDone: the parent's cancellation is not passed on.
DerivedOwnOnly == cancelled

\* ctx.Done() of the derived ctx is closed: by its own cancel or by its parent's.
DerivedDone == cancelled \/ parentDone

\* Faulty variant of WgWaitReady: the caller waits for one goroutine only.
WgWaitForFirst == \E t \in Tasks : gpc[t] = "done"

\* Faulty variant of WgWaitReady: the caller does not wait for its goroutines.
WgWaitSkipped == TRUE

\* wg.Wait() may return: every launched goroutine has run its deferred wg.Done().
WgWaitReady == \A t \in Tasks : gpc[t] = "done"

\* ------------------------------------------------------ behaviours of funcs

\* A func whose behaviour is left to the caller: it returns by itself, or only
\* after it has seen ctx.Done(), with the error it is planned to return.
PlannedFuncs(t) ==
    {[body |-> "plan", blocks |-> FALSE, err |-> e] : e \in {Nil, TaskErr(t)}}
        \cup
    {[body |-> "plan", blocks |-> TRUE, err |-> e] : e \in {Nil, Canceled, TaskErr(t)}}

FuncLists ==
    UNION {{f \in [1 .. n -> UNION {PlannedFuncs(t) : t \in 1 .. MaxTasks}] :
                \A t \in 1 .. n : f[t] \in PlannedFuncs(t)} : n \in 0 .. MaxTasks}

Strategies == {"CancelOnFirstFinish", "CancelOnFirstError", "All", "Sequential"}

\* The variants that wait for every func and aggregate the errors.
WaitStrategies == {"CancelOnFirstFinishWait", "CancelOnFirstErrorWait"}

\* ------------------------------------------------------------ initial state

\* The runner's part of the state while no runner is in use.
RunnerUnused ==
    /\ maxConcurrent = 1
    /\ fns = <<>>
    /\ fnsClosed = FALSE
    /\ closed = FALSE
    /\ mux = "free"
    /\ apc = <<>>
    /\ addDone = <<>>
    /\ added = <<>>
    /\ cpc = <<>>
    /\ cret = <<>>
    /\ dpc = "select"
    /\ held = 0
    /\ limit = 0
    /\ wpc = <<>>
    /\ wcalls = <<>>
    /\ errsClosed = FALSE

\* The Backoff of a Retry with every field at its zero value.
NoBackoff == [Delay |-> 0, Factor |-> 0, Retries |-> 0, IsRetryAble |-> "nil"]

\* Retry's part of the state while no Retry is in use.
RetryUnused ==
    /\ backoff = NoBackoff
    /\ counter = 0
    /\ waited = <<>>
    /\ waitArgs = <<>>

\* The Trigger's part of the state while no Trigger is in use.
TriggerUnused ==
    /\ tdone = FALSE
    /\ tcloses = 0
    /\ fpc = <<>>
    /\ twpc = <<>>
    /\ tseen = <<>>

\* The MultiTrigger's part of the state while no MultiTrigger is in use.
MultiUnused ==
    /\ mdone = <<>>
    /\ mfires = <<>>
    /\ mwpc = "idle"
    /\ mseen = 0

\* A slice of Go: nil, or a possibly empty sequence of elements.
NilSlice == [isNil |-> TRUE, elems |-> <<>>]
Slice(elems) == [isNil |-> FALSE, elems |-> elems]

\* append(s, x): the result is never nil.
AppendSlice(s, x) == [isNil |-> FALSE, elems |-> Append(s.elems, x)]

\* The ErrorList's part of the state while no ErrorList is built.
ErrUnused ==
    /\ econs = "none"
    /\ eargs = NilSlice
    /\ echan = <<>>
    /\ elist = NilSlice
    /\ epc = "idle"
    /\ ebuf = ""
    /\ efirst = TRUE
    /\ eidx = 0

\* The calls of ContextWithSig.
SigCalls == 1 .. MaxSigCalls

\* The state of ContextWithSig before any call of it.
SigUnused ==
    /\ process = "running"
    /\ ambientDone = [c \in SigCalls |-> FALSE]
    /\ spc = [c \in SigCalls |-> "uncalled"]
    /\ registered = [c \in SigCalls |-> FALSE]
    /\ chBuf = [c \in SigCalls |-> 0]
    /\ chClosed = [c \in SigCalls |-> FALSE]
    /\ sigCancelled = [c \in SigCalls |-> FALSE]
    /\ signals = 0
    /\ signalled = {}

\* The state of the primitives that are not in use.
LibUnused ==
    /\ TriggerUnused
    /\ MultiUnused
    /\ ErrUnused
    /\ SigUnused

\* The state of a strategy call on entry, before its first statement.
CallEntry(s, fs) ==
    /\ strategy = s
    /\ funcs = fs
    /\ parentDone = FALSE
    /\ cancelled = FALSE
    /\ spawned = 0
    /\ gpc = [t \in 1 .. Len(fs) |-> "idle"]
    /\ fnRet = [t \in 1 .. Len(fs) |-> Nil]
    /\ err = Nil
    /\ resultClosed = FALSE
    /\ ret = Nil
    /\ calls = [t \in 1 .. Len(fs) |-> 0]
    /\ offered = <<>>
    /\ accepted = <<>>
    /\ errorsCh = <<>>
    /\ errorsClosed = FALSE
    /\ closerPc = "idle"
    /\ list = <<>>

Init ==
    /\ \E s \in Strategies, fs \in FuncLists : CallEntry(s, fs)
    /\ pc = "call"
    /\ RunnerUnused
    /\ RetryUnused
    /\ LibUnused

\* -------------------------------------------- the caller's ctx (environment)

\* The caller cancels the ctx it passed, at any moment before the call returns.
ParentCancel ==
    /\ pc \notin {"idle", "returned"}
    /\ ~parentDone
    /\ parentDone' = TRUE
    /\ UNCHANGED <<strategy, funcs, cancelled, pc, spawned, gpc, fnRet, err,
                   resultClosed, ret, calls, offered, accepted>>
    /\ UNCHANGED <<allVars, runnerVars, retryVars, libVars>>

\* --------------------------------------------------- the calling goroutine

\* Faulty variant of NothingToRun: the empty list is not looked for.
NothingToRunIgnored == FALSE

\* len(funcs) == 0
NothingToRun == Len(funcs) = 0

\* if len(funcs) == 0 { return nil }
ReturnEmpty ==
    /\ pc = "call"
    /\ NothingToRun
    /\ pc' = "returned"
    /\ ret' = Nil
    /\ UNCHANGED <<strategy, funcs, parentDone, cancelled, spawned, gpc, fnRet,
                   err, resultClosed, calls, offered, accepted>>
    /\ UNCHANGED <<allVars, runnerVars, retryVars, libVars>>

\* ctx, cancel := context.WithCancel(ctx); the channel and the WaitGroup are made.
Derive ==
    /\ pc = "call"
    /\ strategy # "Sequential"
    /\ ~NothingToRun
    /\ pc' = "spawn"
    /\ UNCHANGED <<strategy, funcs, parentDone, cancelled, spawned, gpc, fnRet,
                   err, resultClosed, ret, calls, offered, accepted>>
    /\ UNCHANGED <<allVars, runnerVars, retryVars, libVars>>

\* Where the caller continues once the for loop has launched every goroutine.
AfterLoop ==
    IF strategy = "All" THEN "closer"
    ELSE IF strategy \in WaitStrategies THEN "join"
    ELSE "select"

\* One iteration of for _, runner := range funcs { wg.Add(1); go func(run Func) {...}(runner) }:
\* the goroutine is launched and enters err := run(ctx).
Spawn ==
    /\ pc = "spawn"
    /\ spawned' = spawned + 1
    /\ gpc' = [gpc EXCEPT ![spawned + 1] = "run"]
    /\ calls' = [calls EXCEPT ![spawned + 1] = @ + 1]
    /\ pc' = IF spawned + 1 = Len(funcs) THEN AfterLoop ELSE "spawn"
    /\ UNCHANGED <<strategy, funcs, parentDone, cancelled, fnRet, err,
                   resultClosed, ret, offered, accepted>>
    /\ UNCHANGED <<allVars, runnerVars, retryVars, libVars>>

\* The caller reaches select { case err = <-result: ...; case <-ctx.Done(): }:
\* no sender ever waits on result (every send is non-blocking), so the caller
\* takes the ctx.Done() case when it is ready and parks otherwise.
MainSelect ==
    /\ pc = "select"
    /\ pc' = IF DerivedDone THEN "wait" ELSE "parked"
    /\ UNCHANGED <<strategy, funcs, parentDone, cancelled, spawned, gpc, fnRet,
                   err, resultClosed, ret, calls, offered, accepted>>
    /\ UNCHANGED <<allVars, runnerVars, retryVars, libVars>>

\* The parked caller is woken by ctx.Done().
MainCtxDone ==
    /\ pc = "parked"
    /\ DerivedDone
    /\ pc' = "wait"
    /\ UNCHANGED <<strategy, funcs, parentDone, cancelled, spawned, gpc, fnRet,
                   err, resultClosed, ret, calls, offered, accepted>>
    /\ UNCHANGED <<allVars, runnerVars, retryVars, libVars>>

\* case err = <-result: cancel()
MainCancel ==
    /\ pc = "recv"
    /\ cancelled' = TRUE
    /\ pc' = "wait"
    /\ UNCHANGED <<strategy, funcs, parentDone, spawned, gpc, fnRet, err,
                   resultClosed, ret, calls, offered, accepted>>
    /\ UNCHANGED <<allVars, runnerVars, retryVars, libVars>>

\* Faulty variant of ReturnedErr: a cancelled caller's ctx is reported.
ReturnedCtxErr == IF parentDone THEN Canceled ELSE err

\* return err: the value of the local variable, whatever ended the select.
ReturnedErr == err

\* wg.Wait(); return err, then the deferred close(result) and cancel().
MainReturn ==
    /\ pc = "wait"
    /\ WgWaitReady
    /\ pc' = "returned"
    /\ ret' = ReturnedErr
    /\ resultClosed' = TRUE
    /\ cancelled' = TRUE
    /\ UNCHANGED <<strategy, funcs, parentDone, spawned, gpc, fnRet, err, calls, offered, accepted>>
    /\ UNCHANGED <<allVars, runnerVars, retryVars, libVars>>

\* ------------------------------------------- the goroutine of each func

\* run(ctx) returns: by itself, or, for a func that waits for ctx.Done(), once
\* the derived ctx is cancelled.
TaskReturn(t) ==
    /\ gpc[t] = "run"
    /\ funcs[t].body = "plan"
    /\ funcs[t].blocks => DerivedDone
    /\ gpc' = [gpc EXCEPT ![t] = "ret"]
    /\ fnRet' = [fnRet EXCEPT ![t] = funcs[t].err]
    /\ UNCHANGED <<strategy, funcs, parentDone, cancelled, pc, spawned, err,
                   resultClosed, ret, calls, offered, accepted>>
    /\ UNCHANGED <<allVars, runnerVars, retryVars, libVars>>

\* A receiver is waiting on the unbuffered result channel: the caller is parked
\* in its select and has not been woken by ctx.Done().
ReceiverWaiting == pc = "parked" /\ ~DerivedDone

\* select { case result <- err: default: } followed by the deferred wg.Done().
TrySend(t) ==
    /\ gpc[t] = "ret"
    /\ gpc' = [gpc EXCEPT ![t] = "done"]
    /\ offered' = Append(offered, t)
    /\ IF ReceiverWaiting
       THEN /\ err' = fnRet[t]
            /\ pc' = "recv"
            /\ accepted' = Append(accepted, t)
       ELSE UNCHANGED <<err, pc, accepted>>
    /\ UNCHANGED <<strategy, funcs, parentDone, cancelled, spawned, fnRet,
                   resultClosed, ret, calls>>
    /\ UNCHANGED <<allVars, runnerVars, retryVars, libVars>>

\* The deferred wg.Done() alone: nothing is sent.
SendNothing(t) ==
    /\ gpc[t] = "ret"
    /\ gpc' = [gpc EXCEPT ![t] = "done"]
    /\ offered' = Append(offered, t)
    /\ UNCHANGED <<strategy, funcs, parentDone, cancelled, pc, spawned, fnRet,
                   err, resultClosed, ret, calls, accepted>>
    /\ UNCHANGED <<allVars, runnerVars, retryVars, libVars>>

\* CancelOnFirstFinish: err := run(ctx); select { case result <- err: default: }
FinishDeliver(t) ==
    /\ strategy = "CancelOnFirstFinish"
    /\ TrySend(t)

\* CancelOnFirstError: if err := run(ctx); err != nil { select { case result <- err: default: } }
ErrorDeliver(t) ==
    /\ strategy = "CancelOnFirstError"
    /\ IF fnRet[t] # Nil THEN TrySend(t) ELSE SendNothing(t)

\* ---------------------------------------------------------------------- All

\* All: if err := run(ctx); err != nil { errors <- err }, then the deferred
\* wg.Done(). The channel holds len(funcs) elements, so the send never blocks.
AllDeliver(t) ==
    /\ strategy = "All"
    /\ gpc[t] = "ret"
    /\ gpc' = [gpc EXCEPT ![t] = "done"]
    /\ offered' = Append(offered, t)
    /\ errorsCh' = IF fnRet[t] # Nil THEN Append(errorsCh, fnRet[t]) ELSE errorsCh
    /\ UNCHANGED <<strategy, funcs, parentDone, cancelled, pc, spawned, fnRet,
                   err, resultClosed, ret, calls, accepted>>
    /\ UNCHANGED <<errorsClosed, closerPc, list, runnerVars, retryVars, libVars>>

\* go func() { wg.Wait(); close(errors) }() is launched; the caller enters
\* NewErrorListByChan(errors).
SpawnCloser ==
    /\ pc = "closer"
    /\ closerPc' = "wait"
    /\ pc' = "range"
    /\ UNCHANGED <<strategy, funcs, parentDone, cancelled, spawned, gpc, fnRet,
                   err, resultClosed, ret, calls, offered, accepted>>
    /\ UNCHANGED <<errorsCh, errorsClosed, list, runnerVars, retryVars, libVars>>

\* wg.Wait(); close(errors)
CloserClose ==
    /\ closerPc = "wait"
    /\ WgWaitReady
    /\ closerPc' = "done"
    /\ errorsClosed' = TRUE
    /\ UNCHANGED <<stratVars, errorsCh, list, runnerVars, retryVars, libVars>>

\* NewErrorListByChan: one iteration of for err := range errors { list = append(list, err) }
RangeRecv ==
    /\ pc = "range"
    /\ errorsCh # <<>>
    /\ list' = Append(list, Head(errorsCh))
    /\ errorsCh' = Tail(errorsCh)
    /\ UNCHANGED <<stratVars, errorsClosed, closerPc, runnerVars, retryVars, libVars>>

\* The range loop ends on the closed and drained channel; All returns
\* NewErrorList(list...) as its error, then the deferred cancel() runs.
RangeEnd ==
    /\ pc = "range"
    /\ errorsCh = <<>>
    /\ errorsClosed
    /\ ret' = NewErrorList(list)
    /\ cancelled' = TRUE
    /\ pc' = "returned"
    /\ UNCHANGED <<strategy, funcs, parentDone, spawned, gpc, fnRet, err,
                   resultClosed, calls, offered, accepted>>
    /\ UNCHANGED <<allVars, runnerVars, retryVars, libVars>>

\* ------------------------------------------- specification of the strategies

\* The steps of the calling goroutine.
\* --------------------------------------------------------------- Sequential

\* Sequential passes its length check and enters for _, fn := range funcs.
\* spawned counts the funcs the loop has reached.
SeqEnter ==
    /\ pc = "call"
    /\ strategy = "Sequential"
    /\ ~NothingToRun
    /\ pc' = "loop"
    /\ UNCHANGED <<strategy, funcs, parentDone, cancelled, spawned, gpc, fnRet,
                   err, resultClosed, ret, calls, offered, accepted>>
    /\ UNCHANGED <<allVars, runnerVars, retryVars, libVars>>

\* select { case <-ctx.Done(): return nil; ... } at the head of an iteration.
SeqCtxDone ==
    /\ pc = "loop"
    /\ spawned < Len(funcs)
    /\ parentDone
    /\ err' = Nil
    /\ ret' = Nil
    /\ pc' = "returned"
    /\ UNCHANGED <<strategy, funcs, parentDone, cancelled, spawned, gpc, fnRet,
                   resultClosed, calls, offered, accepted>>
    /\ UNCHANGED <<allVars, runnerVars, retryVars, libVars>>

\* default: the caller enters fn(ctx) of the next func.
SeqInvoke ==
    /\ pc = "loop"
    /\ spawned < Len(funcs)
    /\ ~parentDone
    /\ spawned' = spawned + 1
    /\ gpc' = [gpc EXCEPT ![spawned + 1] = "run"]
    /\ calls' = [calls EXCEPT ![spawned + 1] = @ + 1]
    /\ pc' = "seqcall"
    /\ UNCHANGED <<strategy, funcs, parentDone, cancelled, fnRet, err,
                   resultClosed, ret, offered, accepted>>
    /\ UNCHANGED <<allVars, runnerVars, retryVars, libVars>>

\* Faulty variant of TaskFailed: the error of a func does not end the loop.
TaskFailureIgnored == FALSE

\* if err = fn(ctx); err != nil
TaskFailed == fnRet[spawned] # Nil

\* fn(ctx) has returned: err = fn(ctx), then return if err != nil, else the
\* next iteration.
SeqAfterCall ==
    /\ pc = "seqcall"
    /\ gpc[spawned] = "ret"
    /\ gpc' = [gpc EXCEPT ![spawned] = "done"]
    /\ err' = fnRet[spawned]
    /\ offered' = Append(offered, spawned)
    /\ IF TaskFailed
       THEN pc' = "returned" /\ ret' = fnRet[spawned]
       ELSE pc' = "loop" /\ ret' = ret
    /\ UNCHANGED <<strategy, funcs, parentDone, cancelled, spawned, fnRet,
                   resultClosed, calls, accepted>>
    /\ UNCHANGED <<allVars, runnerVars, retryVars, libVars>>

\* The range is exhausted: the bare return yields the named result err.
SeqEnd ==
    /\ pc = "loop"
    /\ spawned = Len(funcs)
    /\ ret' = err
    /\ pc' = "returned"
    /\ UNCHANGED <<strategy, funcs, parentDone, cancelled, spawned, gpc, fnRet,
                   err, resultClosed, calls, offered, accepted>>
    /\ UNCHANGED <<allVars, runnerVars, retryVars, libVars>>

MainStep ==
    \/ ReturnEmpty
    \/ Derive
    \/ Spawn
    \/ MainSelect
    \/ MainCtxDone
    \/ MainCancel
    \/ MainReturn
    \/ SpawnCloser
    \/ RangeRecv
    \/ RangeEnd
    \/ SeqEnter
    \/ SeqCtxDone
    \/ SeqInvoke
    \/ SeqAfterCall
    \/ SeqEnd

\* The steps of the goroutine launched for func t.
GoStep(t) ==
    \/ TaskReturn(t)
    \/ FinishDeliver(t)
    \/ ErrorDeliver(t)
    \/ AllDeliver(t)

Next ==
    \/ ParentCancel
    \/ MainStep
    \/ \E t \in Tasks : GoStep(t)
    \/ CloserClose

Spec == Init /\ [][Next]_vars

\* The steps of the strategy and of the goroutines it launched.
Progress ==
    \/ MainStep
    \/ \E t \in Tasks : GoStep(t)
    \/ CloserClose

\* The Go scheduler does not stop while a goroutine of the call can take a
\* step; the caller of the strategy is under no obligation to cancel its ctx.
Fairness == WF_vars(Progress)

FairSpec == Spec /\ Fairness

\* ---------------------------------------------------------- the Wait variants

\* A call of CancelOnFirstFinishWait or CancelOnFirstErrorWait.
WaitInit ==
    /\ \E s \in WaitStrategies, fs \in FuncLists : CallEntry(s, fs)
    /\ pc = "call"
    /\ RunnerUnused
    /\ RetryUnused
    /\ LibUnused

\* Faulty variant of WaitCancels: every finished func cancels, failed or not.
WaitCancelsAlways(t) == TRUE

\* Faulty variant of WaitCancels: only a failed func cancels.
WaitCancelsOnError(t) == fnRet[t] # Nil

\* The goroutine of func t cancels the derived ctx once its func has returned:
\* always in CancelOnFirstFinishWait, on a non-nil error in CancelOnFirstErrorWait.
WaitCancels(t) ==
    IF strategy = "CancelOnFirstFinishWait" THEN TRUE ELSE fnRet[t] # Nil

\* The goroutine of func t after run(ctx) has returned: a non-nil error is kept
\* for the aggregate, the derived ctx is cancelled as the variant says, and the
\* goroutine is done.
WaitDeliver(t) ==
    /\ strategy \in WaitStrategies
    /\ gpc[t] = "ret"
    /\ gpc' = [gpc EXCEPT ![t] = "done"]
    /\ offered' = Append(offered, t)
    /\ errorsCh' = IF fnRet[t] # Nil THEN Append(errorsCh, fnRet[t]) ELSE errorsCh
    /\ cancelled' = (cancelled \/ WaitCancels(t))
    /\ UNCHANGED <<strategy, funcs, parentDone, pc, spawned, fnRet, err,
                   resultClosed, ret, calls, accepted>>
    /\ UNCHANGED <<errorsClosed, closerPc, list, runnerVars, retryVars, libVars>>

\* The caller blocks until every func has finished, builds the aggregate of
\* the errors kept and returns it, or "no error" if the aggregate is empty;
\* the derived ctx is cancelled on return.
WaitJoin ==
    /\ pc = "join"
    /\ WgWaitReady
    /\ list' = errorsCh
    /\ errorsCh' = <<>>
    /\ errorsClosed' = TRUE
    /\ ret' = IF errorsCh = <<>> THEN Nil ELSE NewErrorList(errorsCh)
    /\ cancelled' = TRUE
    /\ pc' = "returned"
    /\ UNCHANGED <<strategy, funcs, parentDone, spawned, gpc, fnRet, err,
                   resultClosed, calls, offered, accepted>>
    /\ UNCHANGED <<closerPc, runnerVars, retryVars, libVars>>

WaitNext ==
    \/ ParentCancel
    \/ ReturnEmpty
    \/ Derive
    \/ Spawn
    \/ WaitJoin
    \/ \E t \in Tasks : TaskReturn(t) \/ WaitDeliver(t)

WaitSpec == WaitInit /\ [][WaitNext]_vars

\* Every execution strategy, the Wait variants included.
EveryInit == Init \/ WaitInit

EveryNext == Next \/ WaitNext

EverySpec == EveryInit /\ [][EveryNext]_vars

\* --------------------------------------------------------- ConcurrentRunner

\* The funcs offered through Add, one Add call each; the calls are numbered in
\* the order in which they take the mutex.
Adds == 1 .. MaxAdds
\* The calls of Close, numbered in the order in which they take the mutex.
Closers == {1, 2}

\* Add call i is the next one to take the mutex.
NextAdd(i) == apc[i] = "idle" /\ \A j \in Adds : j < i => apc[j] # "idle"
\* Close call c is the next one to take the mutex.
NextClose(c) == cpc[c] = "idle" /\ \A d \in Closers : d < c => cpc[d] # "idle"

\* errors.Errorf("already closed")
AlreadyClosed == [kind |-> "already closed", id |-> 0]

\* The two funcs Run hands to CancelOnFirstError: the queue consumer and the
\* func that waits for ctx.Done(), an error on errs, or c.closed.
RunFuncs ==
    << [body |-> "drain", blocks |-> FALSE, err |-> Nil],
       [body |-> "wait", blocks |-> FALSE, err |-> Nil] >>

\* NewConcurrentRunner(maxConcurrent), with Run not yet called.
RunnerInit ==
    /\ CallEntry("CancelOnFirstError", RunFuncs)
    /\ pc = "idle"
    /\ maxConcurrent \in 1 .. MaxConcurrent
    /\ fns = <<>>
    /\ fnsClosed = FALSE
    /\ closed = FALSE
    /\ mux = "free"
    /\ apc = [i \in Adds |-> "idle"]
    /\ addDone = [i \in Adds |-> FALSE]
    /\ added = [i \in Adds |-> "no"]
    /\ cpc = [c \in Closers |-> "idle"]
    /\ cret = [c \in Closers |-> Nil]
    /\ dpc = "select"
    /\ held = 0
    /\ limit = 0
    /\ wpc = [i \in Adds |-> "none"]
    /\ wcalls = [i \in Adds |-> 0]
    /\ errsClosed = FALSE
    /\ RetryUnused
    /\ LibUnused

\* Faulty variant of MuxFree: the mutex does not exclude anybody.
MuxNotHeld == TRUE

\* c.mux.Lock() succeeds: nobody holds the mutex.
MuxFree == mux = "free"

\* Faulty variant of CloseSeesClosed: Close does not look at c.closed.
CloseSeesOpen == FALSE

\* Close: case <-c.closed of its select is ready.
CloseSeesClosed == closed

\* Close finds c.closed closed: return errors.Errorf("already closed").
CloseAlready(c) ==
    /\ NextClose(c)
    /\ MuxFree
    /\ CloseSeesClosed
    /\ cpc' = [cpc EXCEPT ![c] = "returned"]
    /\ cret' = [cret EXCEPT ![c] = AlreadyClosed]
    /\ UNCHANGED <<stratVars, allVars, retryVars, libVars>>
    /\ UNCHANGED <<maxConcurrent, fns, fnsClosed, closed, mux, apc, addDone,
                   added, dpc, held, limit, wpc, wcalls, errsClosed>>

\* Close takes the mutex, finds c.closed open, and runs close(c.closed);
\* close(c.fns); return nil, then the deferred Unlock.
CloseFirst(c) ==
    /\ NextClose(c)
    /\ MuxFree
    /\ ~CloseSeesClosed
    /\ closed' = TRUE
    /\ fnsClosed' = TRUE
    /\ cpc' = [cpc EXCEPT ![c] = "returned"]
    /\ cret' = [cret EXCEPT ![c] = Nil]
    /\ UNCHANGED <<stratVars, allVars, retryVars, libVars>>
    /\ UNCHANGED <<maxConcurrent, fns, mux, apc, addDone, added, dpc,
                   held, limit, wpc, wcalls, errsClosed>>

\* The ctx passed to Add is cancelled; it is observed only by the select, so a
\* ctx cancelled before the call is one cancelled as the select is entered.
AddCtxCancel(i) ==
    /\ apc[i] = "select"
    /\ ~addDone[i]
    /\ addDone' = [addDone EXCEPT ![i] = TRUE]
    /\ UNCHANGED <<stratVars, allVars, retryVars, libVars>>
    /\ UNCHANGED <<maxConcurrent, fns, fnsClosed, closed, mux, apc, added, cpc,
                   cret, dpc, held, limit, wpc, wcalls, errsClosed>>

\* Faulty variant of AddSeesClosed: Add does not look at c.closed.
AddSeesOpen == FALSE

\* Add: case <-c.closed of its outer select is ready.
AddSeesClosed == closed

\* Add takes the mutex and finds c.closed closed: the fn is discarded.
AddDiscard(i) ==
    /\ NextAdd(i)
    /\ MuxFree
    /\ AddSeesClosed
    /\ apc' = [apc EXCEPT ![i] = "returned"]
    /\ added' = [added EXCEPT ![i] = "discarded"]
    /\ UNCHANGED <<stratVars, allVars, retryVars, libVars>>
    /\ UNCHANGED <<maxConcurrent, fns, fnsClosed, closed, mux, addDone, cpc,
                   cret, dpc, held, limit, wpc, wcalls, errsClosed>>

\* Add takes the mutex, finds c.closed open and enters
\* select { case <-ctx.Done(): case c.fns <- fn: }, holding the mutex.
AddEnter(i) ==
    /\ NextAdd(i)
    /\ MuxFree
    /\ ~AddSeesClosed
    /\ mux' = "add"
    /\ apc' = [apc EXCEPT ![i] = "select"]
    /\ UNCHANGED <<stratVars, allVars, retryVars, libVars>>
    /\ UNCHANGED <<maxConcurrent, fns, fnsClosed, closed, addDone, added, cpc,
                   cret, dpc, held, limit, wpc, wcalls, errsClosed>>

\* case c.fns <- fn: the buffered channel has room (a send on a closed channel
\* panics); then the deferred Unlock.
AddSend(i) ==
    /\ apc[i] = "select"
    /\ Len(fns) < maxConcurrent \/ fnsClosed
    /\ IF fnsClosed
       THEN /\ added' = [added EXCEPT ![i] = "panic"]
            /\ fns' = fns
       ELSE /\ added' = [added EXCEPT ![i] = "enqueued"]
            /\ fns' = Append(fns, i)
    /\ mux' = "free"
    /\ apc' = [apc EXCEPT ![i] = "returned"]
    /\ UNCHANGED <<stratVars, allVars, retryVars, libVars>>
    /\ UNCHANGED <<maxConcurrent, fnsClosed, closed, addDone, cpc, cret,
                   dpc, held, limit, wpc, wcalls, errsClosed>>

\* case <-ctx.Done(): the add is abandoned; then the deferred Unlock.
AddAbandon(i) ==
    /\ apc[i] = "select"
    /\ addDone[i]
    /\ mux' = "free"
    /\ apc' = [apc EXCEPT ![i] = "returned"]
    /\ added' = [added EXCEPT ![i] = "abandoned"]
    /\ UNCHANGED <<stratVars, allVars, retryVars, libVars>>
    /\ UNCHANGED <<maxConcurrent, fns, fnsClosed, closed, addDone, cpc, cret,
                   dpc, held, limit, wpc, wcalls, errsClosed>>

\* Run is called: errs and limit are made and CancelOnFirstError is entered.
RunCall ==
    /\ pc = "idle"
    /\ pc' = "call"
    /\ UNCHANGED <<strategy, funcs, parentDone, cancelled, spawned, gpc, fnRet,
                   err, resultClosed, ret, calls, offered, accepted>>
    /\ UNCHANGED <<allVars, runnerVars, retryVars, libVars>>

\* CancelOnFirstError has returned: Run returns its error and the deferred
\* close(errs) runs.
RunReturn ==
    /\ funcs = RunFuncs
    /\ pc = "returned"
    /\ ~errsClosed
    /\ errsClosed' = TRUE
    /\ UNCHANGED <<stratVars, allVars, retryVars, libVars>>
    /\ UNCHANGED <<maxConcurrent, fns, fnsClosed, closed, mux, apc, addDone,
                   added, cpc, cret, dpc, held, limit, wpc, wcalls>>

\* The func of Run numbered t returns e to its goroutine in CancelOnFirstError.
RunFuncReturns(t, e) ==
    /\ gpc' = [gpc EXCEPT ![t] = "ret"]
    /\ fnRet' = [fnRet EXCEPT ![t] = e]
    /\ UNCHANGED <<strategy, funcs, parentDone, cancelled, pc, spawned, err,
                   resultClosed, ret, calls, offered, accepted>>
    /\ UNCHANGED <<allVars, retryVars, libVars>>

\* The queue consumer is at its select.
DrainAtSelect == funcs[1].body = "drain" /\ gpc[1] = "run" /\ dpc = "select"

\* Queue consumer: case <-ctx.Done(): return ctx.Err()
DrainCtxDone ==
    /\ DrainAtSelect
    /\ DerivedDone
    /\ RunFuncReturns(1, Canceled)
    /\ UNCHANGED runnerVars

\* Queue consumer: case fn, ok := <-c.fns with ok true.
DrainRecv ==
    /\ DrainAtSelect
    /\ fns # <<>>
    /\ held' = Head(fns)
    /\ fns' = Tail(fns)
    /\ dpc' = "limit"
    /\ UNCHANGED <<stratVars, allVars, retryVars, libVars>>
    /\ UNCHANGED <<maxConcurrent, fnsClosed, closed, mux, apc, addDone, added,
                   cpc, cret, limit, wpc, wcalls, errsClosed>>

\* Faulty variant of FnsExhausted: the consumer stops as soon as c.fns is
\* closed, leaving behind the fns still queued.
FnsClosedOnly == fnsClosed

\* The receive on c.fns yields ok = false: the channel is closed and empty.
FnsExhausted == fns = <<>> /\ fnsClosed

\* Queue consumer: case fn, ok := <-c.fns with ok false: return nil
DrainClosed ==
    /\ DrainAtSelect
    /\ FnsExhausted
    /\ RunFuncReturns(1, Nil)
    /\ UNCHANGED runnerVars

\* Faulty variant of LimitHasRoom: the launch does not wait for room in limit.
LimitNotChecked == TRUE

\* limit <- struct{}{} can proceed: the limit channel has room.
LimitHasRoom == limit < maxConcurrent

\* Queue consumer: limit <- struct{}{}; go func() { ... err := fn(ctx) ... }()
DrainLaunch ==
    /\ funcs[1].body = "drain"
    /\ gpc[1] = "run"
    /\ dpc = "limit"
    /\ LimitHasRoom
    /\ limit' = limit + 1
    /\ wpc' = [wpc EXCEPT ![held] = "run"]
    /\ wcalls' = [wcalls EXCEPT ![held] = @ + 1]
    /\ held' = 0
    /\ dpc' = "select"
    /\ UNCHANGED <<stratVars, allVars, retryVars, libVars>>
    /\ UNCHANGED <<maxConcurrent, fns, fnsClosed, closed, mux, apc, addDone,
                   added, cpc, cret, errsClosed>>

\* Worker: fn(ctx) returns nil; the deferred <-limit runs.
WorkerOk(i) ==
    /\ wpc[i] = "run"
    /\ wpc' = [wpc EXCEPT ![i] = "ok"]
    /\ limit' = limit - 1
    /\ UNCHANGED <<stratVars, allVars, retryVars, libVars>>
    /\ UNCHANGED <<maxConcurrent, fns, fnsClosed, closed, mux, apc, addDone,
                   added, cpc, cret, dpc, held, wcalls, errsClosed>>

\* Worker: fn(ctx) returns an error; the worker enters
\* select { case <-ctx.Done(): return; case errs <- errors.Wrap(err, ...): }
WorkerFail(i) ==
    /\ wpc[i] = "run"
    /\ wpc' = [wpc EXCEPT ![i] = "failed"]
    /\ UNCHANGED <<stratVars, allVars, retryVars, libVars>>
    /\ UNCHANGED <<maxConcurrent, fns, fnsClosed, closed, mux, apc, addDone,
                   added, cpc, cret, dpc, held, limit, wcalls, errsClosed>>

\* Worker: case <-ctx.Done(): return, the error is not sent; the deferred
\* <-limit runs.
WorkerCtxDone(i) ==
    /\ wpc[i] = "failed"
    /\ DerivedDone
    /\ wpc' = [wpc EXCEPT ![i] = "dropped"]
    /\ limit' = limit - 1
    /\ UNCHANGED <<stratVars, allVars, retryVars, libVars>>
    /\ UNCHANGED <<maxConcurrent, fns, fnsClosed, closed, mux, apc, addDone,
                   added, cpc, cret, dpc, held, wcalls, errsClosed>>

\* The waiting func of Run is at its select, ready to receive from errs.
WaitAtSelect == funcs[2].body = "wait" /\ gpc[2] = "run"

\* Worker: case errs <- errors.Wrap(err, "execute fn failed") meets the waiting
\* func's case err := <-errs: return err (errs is unbuffered); the worker's
\* deferred <-limit runs.
WorkerSend(i) ==
    /\ wpc[i] = "failed"
    /\ ~errsClosed
    /\ WaitAtSelect
    /\ RunFuncReturns(2, Wrap(TaskErr(i)))
    /\ wpc' = [wpc EXCEPT ![i] = "sent"]
    /\ limit' = limit - 1
    /\ UNCHANGED <<maxConcurrent, fns, fnsClosed, closed, mux, apc, addDone,
                   added, cpc, cret, dpc, held, wcalls, errsClosed>>

\* Worker: the send case is taken after Run has closed errs: the send panics.
WorkerPanic(i) ==
    /\ wpc[i] = "failed"
    /\ errsClosed
    /\ wpc' = [wpc EXCEPT ![i] = "panic"]
    /\ UNCHANGED <<stratVars, allVars, retryVars, libVars>>
    /\ UNCHANGED <<maxConcurrent, fns, fnsClosed, closed, mux, apc, addDone,
                   added, cpc, cret, dpc, held, limit, wcalls, errsClosed>>

\* Waiting func: case <-ctx.Done(): return ctx.Err()
WaitCtxDone ==
    /\ WaitAtSelect
    /\ DerivedDone
    /\ RunFuncReturns(2, Canceled)
    /\ UNCHANGED runnerVars

\* Waiting func: case <-c.closed: return nil
WaitClosed ==
    /\ WaitAtSelect
    /\ closed
    /\ RunFuncReturns(2, Nil)
    /\ UNCHANGED runnerVars

\* The steps of the goroutine that called Run.
RunMainStep ==
    \/ Derive
    \/ Spawn
    \/ MainSelect
    \/ MainCtxDone
    \/ MainCancel
    \/ MainReturn
    \/ RunReturn

\* The steps of the goroutines CancelOnFirstError launched for Run's two funcs.
RunGoStep(t) ==
    \/ ErrorDeliver(t)

\* The steps of the queue consumer.
DrainStep ==
    \/ DrainCtxDone
    \/ DrainRecv
    \/ DrainClosed
    \/ DrainLaunch

\* The steps of the waiting func.
WaitStep ==
    \/ WaitCtxDone
    \/ WaitClosed

\* The steps of the worker goroutine of fn i.
WorkerStep(i) ==
    \/ WorkerOk(i)
    \/ WorkerFail(i)
    \/ WorkerCtxDone(i)
    \/ WorkerSend(i)
    \/ WorkerPanic(i)

\* The steps of the callers of Add and Close.
ClientStep ==
    \/ \E i \in Adds : AddCtxCancel(i)
    \/ \E i \in Adds : AddDiscard(i)
    \/ \E i \in Adds : AddEnter(i)
    \/ \E i \in Adds : AddSend(i)
    \/ \E i \in Adds : AddAbandon(i)
    \/ \E c \in Closers : CloseAlready(c)
    \/ \E c \in Closers : CloseFirst(c)

RunnerNext ==
    \/ ParentCancel
    \/ RunCall
    \/ RunMainStep
    \/ \E t \in Tasks : RunGoStep(t)
    \/ DrainStep
    \/ WaitStep
    \/ \E i \in Adds : WorkerStep(i)
    \/ ClientStep

RunnerSpec == RunnerInit /\ [][RunnerNext]_vars

\* The steps of Run and of the goroutines it launched.
RunProgress ==
    \/ RunMainStep
    \/ \E t \in Tasks : RunGoStep(t)
    \/ DrainStep
    \/ WaitStep
    \/ \E i \in Adds : WorkerStep(i)

\* The Go scheduler does not stop while a goroutine of Run can take a step; the
\* callers of Add, Close and Run, and of cancel, are under no obligation.
RunnerFairness == WF_vars(RunProgress)

FairRunnerSpec == RunnerSpec /\ RunnerFairness

\* Add and Close calls are goroutines too: an Add in its inner select takes a
\* case that is ready, and a Close takes the mutex when it stays free. The
\* callers of cancel and of Run are under no obligation.
ClientFairness ==
    /\ WF_vars(\E i \in Adds : AddSend(i) \/ AddAbandon(i))
    /\ \A c \in Closers : WF_vars(CloseAlready(c) \/ CloseFirst(c))

FairClientSpec == RunnerSpec /\ RunnerFairness /\ ClientFairness

\* Some fn executed by a worker has returned an error.
SomeFailed == \E i \in Adds : wpc[i] \in {"failed", "sent", "dropped", "panic"}

\* The runner in the behaviours in which the ctx passed to Run is never
\* cancelled and no fn returns an error: every step is a step of RunnerNext.
QuietRunnerNext == RunnerNext /\ ~parentDone' /\ ~SomeFailed'

QuietRunnerSpec == RunnerInit /\ [][QuietRunnerNext]_vars

\* As RunnerFairness, for the steps that stay within these behaviours.
QuietRunnerFairness == WF_vars(RunProgress /\ ~parentDone' /\ ~SomeFailed')

FairQuietRunnerSpec == QuietRunnerSpec /\ QuietRunnerFairness

\* -------------------------------------------------------------------- Retry

\* The Backoff values: IsRetryAble is nil, or a predicate that accepts every
\* error, no error, or only the error of the first attempt.
Backoffs ==
    [Delay : 0 .. MaxDelay, Factor : 0 .. MaxFactor, Retries : 0 .. MaxRetries,
     IsRetryAble : {"nil", "all", "none", "first"}]

\* backoff.IsRetryAble(e)
IsRetryAble(e) ==
    CASE backoff.IsRetryAble = "all" -> TRUE
      [] backoff.IsRetryAble = "none" -> FALSE
      [] backoff.IsRetryAble = "first" -> e.id = 1
      [] OTHER -> TRUE

\* The wrapped fn of a Retry: each attempt succeeds or fails as it likes.
RetryFuncs == << [body |-> "attempts", blocks |-> FALSE, err |-> Nil] >>

\* The Func returned by Retry(backoff, fn) has been called: var counter int.
RetryInit ==
    /\ CallEntry("Retry", RetryFuncs)
    /\ pc = "loop"
    /\ RunnerUnused
    /\ backoff \in Backoffs
    /\ counter = 0
    /\ waited = <<>>
    /\ waitArgs = <<>>
    /\ LibUnused

\* Faulty variant of CtxDoneReady: the select before an attempt sees nothing.
CtxNeverChecked == FALSE

\* case <-ctx.Done() of the select at the head of the loop is ready.
CtxDoneReady == parentDone

\* select { case <-ctx.Done(): return ctx.Err() ... } at the head of the loop.
RetryCtxDone ==
    /\ strategy = "Retry"
    /\ pc = "loop"
    /\ CtxDoneReady
    /\ ret' = Canceled
    /\ pc' = "returned"
    /\ UNCHANGED <<strategy, funcs, parentDone, cancelled, spawned, gpc, fnRet,
                   err, resultClosed, calls, offered, accepted>>
    /\ UNCHANGED <<allVars, runnerVars, retryVars, libVars>>

\* default: fn(ctx) is entered.
RetryInvoke ==
    /\ strategy = "Retry"
    /\ pc = "loop"
    /\ ~CtxDoneReady
    /\ gpc' = [gpc EXCEPT ![1] = "run"]
    /\ calls' = [calls EXCEPT ![1] = @ + 1]
    /\ pc' = "attempt"
    /\ UNCHANGED <<strategy, funcs, parentDone, cancelled, spawned, fnRet, err,
                   resultClosed, ret, offered, accepted>>
    /\ UNCHANGED <<allVars, runnerVars, retryVars, libVars>>

\* fn(ctx) returns nil, or the error of this attempt.
AttemptReturns ==
    /\ funcs[1].body = "attempts"
    /\ gpc[1] = "run"
    /\ \E e \in {Nil, TaskErr(calls[1])} : fnRet' = [fnRet EXCEPT ![1] = e]
    /\ gpc' = [gpc EXCEPT ![1] = "ret"]
    /\ UNCHANGED <<strategy, funcs, parentDone, cancelled, pc, spawned, err,
                   resultClosed, ret, calls, offered, accepted>>
    /\ UNCHANGED <<allVars, runnerVars, retryVars, libVars>>

\* Faulty variant of RetriesExhausted: one more attempt is made.
RetriesExhaustedLate == counter > backoff.Retries

\* counter == backoff.Retries
RetriesExhausted == counter = backoff.Retries

\* Faulty variant of NotRetryAble: the predicate is not consulted.
PredicateIgnored == FALSE

\* backoff.IsRetryAble != nil && backoff.IsRetryAble(err) == false
NotRetryAble == backoff.IsRetryAble # "nil" /\ ~IsRetryAble(fnRet[1])

\* if err := fn(ctx); err != nil { if ... { return err }; counter++; ... };
\* return nil. With backoff.Delay > 0 the timer is started.
RetryAfterAttempt ==
    /\ strategy = "Retry"
    /\ pc = "attempt"
    /\ gpc[1] = "ret"
    /\ gpc' = [gpc EXCEPT ![1] = "done"]
    /\ IF fnRet[1] = Nil \/ RetriesExhausted \/ NotRetryAble
       THEN /\ ret' = fnRet[1]
            /\ pc' = "returned"
            /\ UNCHANGED <<counter, waited>>
       ELSE /\ counter' = counter + 1
            /\ waited' = Append(waited, 0)
            /\ pc' = IF backoff.Delay > 0 THEN "timer" ELSE "loop"
            /\ ret' = ret
    /\ UNCHANGED <<strategy, funcs, parentDone, cancelled, spawned, fnRet, err,
                   resultClosed, calls, offered, accepted>>
    /\ UNCHANGED <<allVars, runnerVars, backoff, waitArgs, libVars>>

\* select { case <-ctx.Done(): return ctx.Err(); case <-time.NewTimer(...).C: }
\* takes the ctx.Done() case.
TimerCtxDone ==
    /\ pc = "timer"
    /\ parentDone
    /\ ret' = Canceled
    /\ pc' = "returned"
    /\ UNCHANGED <<strategy, funcs, parentDone, cancelled, spawned, gpc, fnRet,
                   err, resultClosed, calls, offered, accepted>>
    /\ UNCHANGED <<allVars, runnerVars, retryVars, libVars>>

\* The timer of backoff.Delay fires and the select takes its case; a ctx
\* cancelled by then leaves the choice between the two cases open.
TimerFires ==
    /\ pc = "timer"
    /\ waited' = [waited EXCEPT ![Len(waited)] = @ + backoff.Delay]
    /\ pc' = "waiter"
    /\ UNCHANGED <<strategy, funcs, parentDone, cancelled, spawned, gpc, fnRet,
                   err, resultClosed, ret, calls, offered, accepted>>
    /\ UNCHANGED <<allVars, runnerVars, backoff, counter, waitArgs, libVars>>

\* DefaultWaiter.Wait(ctx, backoff.Delay) returns ctx.Err(); Retry wraps it.
WaiterCtxDone ==
    /\ pc = "waiter"
    /\ parentDone
    /\ ret' = Wrapf(Canceled)
    /\ waitArgs' = Append(waitArgs, backoff.Delay)
    /\ pc' = "returned"
    /\ UNCHANGED <<strategy, funcs, parentDone, cancelled, spawned, gpc, fnRet,
                   err, resultClosed, calls, offered, accepted>>
    /\ UNCHANGED <<allVars, runnerVars, backoff, counter, waited, libVars>>

\* DefaultWaiter.Wait(ctx, backoff.Delay) returns nil after backoff.Delay;
\* continue.
WaiterElapsed ==
    /\ pc = "waiter"
    /\ waited' = [waited EXCEPT ![Len(waited)] = @ + backoff.Delay]
    /\ waitArgs' = Append(waitArgs, backoff.Delay)
    /\ pc' = "loop"
    /\ UNCHANGED <<strategy, funcs, parentDone, cancelled, spawned, gpc, fnRet,
                   err, resultClosed, ret, calls, offered, accepted>>
    /\ UNCHANGED <<allVars, runnerVars, backoff, counter, libVars>>

\* The steps of the Func returned by Retry, fn included.
RetryStep ==
    \/ RetryCtxDone
    \/ RetryInvoke
    \/ AttemptReturns
    \/ RetryAfterAttempt
    \/ TimerCtxDone
    \/ TimerFires
    \/ WaiterCtxDone
    \/ WaiterElapsed

RetryNext ==
    \/ ParentCancel
    \/ RetryStep

RetrySpec == RetryInit /\ [][RetryNext]_vars

\* The goroutine running the Func is scheduled, fn returns, and time passes.
RetryFairness == WF_vars(RetryStep)

FairRetrySpec == RetrySpec /\ RetryFairness

\* ------------------------------------------------------------------ Trigger

Firers == 1 .. MaxFirers
Waiters == 1 .. MaxFirers

\* NewTrigger(): a trigger that has not fired, with callers and waiters at rest.
TriggerInit ==
    /\ CallEntry("Trigger", <<>>)
    /\ pc = "idle"
    /\ RunnerUnused
    /\ RetryUnused
    /\ tdone = FALSE
    /\ tcloses = 0
    /\ fpc = [f \in Firers |-> 0]
    /\ twpc = [w \in Waiters |-> "idle"]
    /\ tseen = [w \in Waiters |-> 0]
    /\ MultiUnused
    /\ ErrUnused
    /\ SigUnused

\* Faulty variant of FireSeesFired: Fire does not look at the state.
FireSeesNothing == FALSE

\* Fire finds the trigger already fired.
FireSeesFired == tdone

\* Fire(): the first call opens the gate, a later call is a no-op.
Fire(f) ==
    /\ fpc[f] < MaxRepeat
    /\ fpc' = [fpc EXCEPT ![f] = @ + 1]
    /\ IF FireSeesFired
       THEN UNCHANGED <<tdone, tcloses>>
       ELSE tdone' = TRUE /\ tcloses' = tcloses + 1
    /\ UNCHANGED <<stratVars, allVars, runnerVars, retryVars, twpc, tseen, multiVars, errVars, sigVars>>

\* A waiter starts waiting on Done().
TriggerWait(w) ==
    /\ twpc[w] = "idle"
    /\ tseen[w] < MaxRepeat
    /\ twpc' = [twpc EXCEPT ![w] = "waiting"]
    /\ UNCHANGED <<stratVars, allVars, runnerVars, retryVars, tdone, tcloses, fpc, tseen, multiVars, errVars, sigVars>>

\* <-Done() returns for a waiter: the wait-point is ready; nothing is consumed.
TriggerObserve(w) ==
    /\ twpc[w] = "waiting"
    /\ tdone
    /\ twpc' = [twpc EXCEPT ![w] = "idle"]
    /\ tseen' = [tseen EXCEPT ![w] = @ + 1]
    /\ UNCHANGED <<stratVars, allVars, runnerVars, retryVars, tdone, tcloses, fpc, multiVars, errVars, sigVars>>

TriggerNext ==
    \/ \E f \in Firers : Fire(f)
    \/ \E w \in Waiters : TriggerWait(w)
    \/ \E w \in Waiters : TriggerObserve(w)

TriggerSpec == TriggerInit /\ [][TriggerNext]_vars

\* A waiter whose wait-point is ready is scheduled; nobody is obliged to fire.
TriggerFairness == \A w \in Waiters : WF_vars(TriggerObserve(w))

FairTriggerSpec == TriggerSpec /\ TriggerFairness

\* ------------------------------------------------------------- MultiTrigger

Handles == 1 .. Len(mdone)

\* NewMultiTrigger(): no handle issued yet.
MultiInit ==
    /\ CallEntry("MultiTrigger", <<>>)
    /\ pc = "idle"
    /\ RunnerUnused
    /\ RetryUnused
    /\ TriggerUnused
    /\ MultiUnused
    /\ ErrUnused
    /\ SigUnused

\* Add(): one more handle, not fired, that the wait-point now depends on.
MultiAdd ==
    /\ strategy = "MultiTrigger"
    /\ Len(mdone) < MaxHandles
    /\ mdone' = Append(mdone, FALSE)
    /\ mfires' = Append(mfires, 0)
    /\ UNCHANGED <<stratVars, allVars, runnerVars, retryVars, triggerVars, errVars, sigVars, mwpc, mseen>>

\* Faulty variant of FiredFlag: firing a handle again takes its fire back.
FiredFlagToggled(h) == ~mdone[h]

\* The state of handle h after a Fire(): fired, whatever it was.
FiredFlag(h) == TRUE

\* Fire() on handle h: the handle has fired; firing it again changes nothing.
HandleFire(h) ==
    /\ mfires[h] < MaxRepeat
    /\ mfires' = [mfires EXCEPT ![h] = @ + 1]
    /\ mdone' = [mdone EXCEPT ![h] = FiredFlag(h)]
    /\ UNCHANGED <<stratVars, allVars, runnerVars, retryVars, triggerVars, errVars, sigVars, mwpc, mseen>>

\* Faulty variant of MultiReady: the handles issued last are not looked at.
MultiReadyOnFirst == Len(mdone) > 0 => mdone[1]

\* The wait-point of the MultiTrigger is ready: every issued handle has fired.
MultiReady == \A h \in Handles : mdone[h]

\* The waiter starts waiting on Done().
MultiWait ==
    /\ strategy = "MultiTrigger"
    /\ mwpc = "idle"
    /\ mseen < MaxRepeat
    /\ mwpc' = "waiting"
    /\ UNCHANGED <<stratVars, allVars, runnerVars, retryVars, triggerVars, errVars, sigVars, mdone, mfires, mseen>>

\* <-Done() returns for the waiter.
MultiObserve ==
    /\ mwpc = "waiting"
    /\ MultiReady
    /\ mwpc' = "idle"
    /\ mseen' = mseen + 1
    /\ UNCHANGED <<stratVars, allVars, runnerVars, retryVars, triggerVars, errVars, sigVars, mdone, mfires>>

MultiNext ==
    \/ MultiAdd
    \/ \E h \in Handles : HandleFire(h)
    \/ MultiWait
    \/ MultiObserve

MultiSpec == MultiInit /\ [][MultiNext]_vars

\* ---------------------------------------------------------------- ErrorList

\* The messages of the errors put into a list.
Msgs == {"test", "test1", "test2"}

\* The sequences of at most n messages.
RECURSIVE MsgSeqs(_)
MsgSeqs(n) ==
    IF n = 0 THEN {<<>>}
    ELSE MsgSeqs(n - 1) \cup {Append(q, m) : q \in {r \in MsgSeqs(n - 1) : Len(r) = n - 1}, m \in Msgs}

\* The arguments of NewErrorList(errors...): no argument at all gives the nil
\* slice; a spread slice is passed as it is, and may be empty without being nil.
ArgSlices == {NilSlice} \cup {Slice(q) : q \in MsgSeqs(MaxErrs)}

\* A call of one of the two constructors, followed by Error() on its result.
ErrInit ==
    /\ CallEntry("ErrorList", <<>>)
    /\ pc = "idle"
    /\ RunnerUnused
    /\ RetryUnused
    /\ TriggerUnused
    /\ MultiUnused
    /\ SigUnused
    /\ epc = "call"
    /\ elist = NilSlice
    /\ ebuf = ""
    /\ efirst = TRUE
    /\ eidx = 0
    /\ \/ econs = "NewErrorList" /\ eargs \in ArgSlices /\ echan = <<>>
       \/ econs = "NewErrorListByChan" /\ eargs = NilSlice /\ echan \in MsgSeqs(MaxErrs)

\* ErrorList(errors): the conversion keeps the slice, nil or not.
ErrorListOf(errors) == errors

\* NewErrorList: return ErrorList(errors).
ErrNewErrorList ==
    /\ econs = "NewErrorList"
    /\ epc = "call"
    /\ elist' = ErrorListOf(eargs)
    /\ epc' = "built"
    /\ UNCHANGED <<stratVars, allVars, runnerVars, retryVars, triggerVars, multiVars, sigVars,
                   econs, eargs, echan, ebuf, efirst, eidx>>

\* NewErrorListByChan: one turn of "for err := range errors", list = append(list, err).
ErrChanRecv ==
    /\ econs = "NewErrorListByChan"
    /\ epc = "call"
    /\ echan # <<>>
    /\ elist' = AppendSlice(elist, Head(echan))
    /\ echan' = Tail(echan)
    /\ UNCHANGED <<stratVars, allVars, runnerVars, retryVars, triggerVars, multiVars, sigVars,
                   econs, eargs, epc, ebuf, efirst, eidx>>

\* NewErrorListByChan: the channel is closed and drained, return NewErrorList(list...).
ErrChanClosed ==
    /\ econs = "NewErrorListByChan"
    /\ epc = "call"
    /\ echan = <<>>
    /\ elist' = ErrorListOf(elist)
    /\ epc' = "built"
    /\ UNCHANGED <<stratVars, allVars, runnerVars, retryVars, triggerVars, multiVars, sigVars,
                   econs, eargs, echan, ebuf, efirst, eidx>>

\* Error(): buf := "errors: ", first := true.
ErrorEnter ==
    /\ epc = "built"
    /\ ebuf' = "errors: "
    /\ efirst' = TRUE
    /\ eidx' = 1
    /\ epc' = "range"
    /\ UNCHANGED <<stratVars, allVars, runnerVars, retryVars, triggerVars, multiVars, sigVars,
                   econs, eargs, echan, elist>>

\* Error(): one turn of the loop: ", " before every message but the first,
\* then the message.
ErrorWrite ==
    /\ epc = "range"
    /\ eidx <= Len(elist.elems)
    /\ ebuf' = (IF efirst THEN ebuf ELSE ebuf \o ", ") \o elist.elems[eidx]
    /\ efirst' = FALSE
    /\ eidx' = eidx + 1
    /\ UNCHANGED <<stratVars, allVars, runnerVars, retryVars, triggerVars, multiVars, sigVars,
                   econs, eargs, echan, elist, epc>>

\* Error(): return buf.String().
ErrorReturn ==
    /\ epc = "range"
    /\ eidx > Len(elist.elems)
    /\ epc' = "rendered"
    /\ UNCHANGED <<stratVars, allVars, runnerVars, retryVars, triggerVars, multiVars, sigVars,
                   econs, eargs, echan, elist, ebuf, efirst, eidx>>

ErrNext ==
    \/ ErrNewErrorList
    \/ ErrChanRecv
    \/ ErrChanClosed
    \/ ErrorEnter
    \/ ErrorWrite
    \/ ErrorReturn

ErrSpec == ErrInit /\ [][ErrNext]_vars

\* ----------------------------------------------------------- ContextWithSig

\* The process with no call of ContextWithSig made yet.
SigInit ==
    /\ CallEntry("ContextWithSig", <<>>)
    /\ pc = "idle"
    /\ RunnerUnused
    /\ RetryUnused
    /\ LibUnused

\* The caller of call c cancels the ctx it passes or passed, or its deadline
\* is reached: before the call as well as after it.
AmbientCancel(c) ==
    /\ strategy = "ContextWithSig"
    /\ process = "running"
    /\ ~ambientDone[c]
    /\ ambientDone' = [ambientDone EXCEPT ![c] = TRUE]
    /\ UNCHANGED <<stratVars, allVars, runnerVars, retryVars, triggerVars, multiVars, errVars,
                   process, spc, registered, chBuf, chClosed, sigCancelled, signals, signalled>>

\* ContextWithSig(ctx): ctxWithCancel, cancel := context.WithCancel(ctx); the
\* goroutine is launched and ctxWithCancel is returned.
SigCall(c) ==
    /\ strategy = "ContextWithSig"
    /\ process = "running"
    /\ spc[c] = "uncalled"
    /\ spc' = [spc EXCEPT ![c] = "start"]
    /\ UNCHANGED <<stratVars, allVars, runnerVars, retryVars, triggerVars, multiVars, errVars,
                   process, ambientDone, registered, chBuf, chClosed, sigCancelled, signals,
                   signalled>>

\* ctxWithCancel has been returned by call c.
Returned(c) == spc[c] # "uncalled"

\* ctxWithCancel.Done() of call c is closed: by cancel() or by the parent ctx.
SigCtxDone(c) == Returned(c) /\ (sigCancelled[c] \/ ambientDone[c])

\* signalCh := make(chan os.Signal, 1); signal.Notify(signalCh, ...)
SigNotify(c) ==
    /\ process = "running"
    /\ spc[c] = "start"
    /\ registered' = [registered EXCEPT ![c] = TRUE]
    /\ spc' = [spc EXCEPT ![c] = "select"]
    /\ UNCHANGED <<stratVars, allVars, runnerVars, retryVars, triggerVars, multiVars, errVars,
                   process, ambientDone, chBuf, chClosed, sigCancelled, signals, signalled>>

\* case signal, ok := <-signalCh: a buffered signal is received.
SigRecv(c) ==
    /\ process = "running"
    /\ spc[c] = "select"
    /\ chBuf[c] > 0
    /\ chBuf' = [chBuf EXCEPT ![c] = @ - 1]
    /\ spc' = [spc EXCEPT ![c] = "close"]
    /\ UNCHANGED <<stratVars, allVars, runnerVars, retryVars, triggerVars, multiVars, errVars,
                   process, ambientDone, registered, chClosed, sigCancelled, signals, signalled>>

\* case <-ctx.Done(): the ctx passed to the call is cancelled.
SigParentDone(c) ==
    /\ process = "running"
    /\ spc[c] = "select"
    /\ ambientDone[c]
    /\ spc' = [spc EXCEPT ![c] = "close"]
    /\ UNCHANGED <<stratVars, allVars, runnerVars, retryVars, triggerVars, multiVars, errVars,
                   process, ambientDone, registered, chBuf, chClosed, sigCancelled, signals,
                   signalled>>

\* The goroutine returns: first the deferred close(signalCh); the channel
\* stays among the handlers of os/signal, signal.Stop is not called.
SigClose(c) ==
    /\ process = "running"
    /\ spc[c] = "close"
    /\ chClosed' = [chClosed EXCEPT ![c] = TRUE]
    /\ spc' = [spc EXCEPT ![c] = "cancel"]
    /\ UNCHANGED <<stratVars, allVars, runnerVars, retryVars, triggerVars, multiVars, errVars,
                   process, ambientDone, registered, chBuf, sigCancelled, signals, signalled>>

\* Then the deferred cancel().
SigCancel(c) ==
    /\ process = "running"
    /\ spc[c] = "cancel"
    /\ sigCancelled' = [sigCancelled EXCEPT ![c] = TRUE]
    /\ spc' = [spc EXCEPT ![c] = "done"]
    /\ UNCHANGED <<stratVars, allVars, runnerVars, retryVars, triggerVars, multiVars, errVars,
                   process, ambientDone, registered, chBuf, chClosed, signals, signalled>>

\* The channels given to signal.Notify that are closed.
ClosedHandlers == {c \in SigCalls : registered[c] /\ chClosed[c]}

\* The process receives SIGINT or SIGTERM. Before the first signal.Notify the
\* signal has its default effect and ends the process. After it, os/signal
\* does select { case c <- sig: default: } for each registered channel in the
\* order of a map: a closed channel makes that send panic, after the signal
\* has been put into some of the other channels.
SignalArrives ==
    /\ strategy = "ContextWithSig"
    /\ process = "running"
    /\ signals < MaxSignals
    /\ signals' = signals + 1
    /\ signalled' = signalled \cup {c \in SigCalls : Returned(c)}
    /\ IF \A c \in SigCalls : ~registered[c]
       THEN process' = "killed" /\ UNCHANGED chBuf
       ELSE \E sent \in SUBSET {c \in SigCalls : registered[c] /\ ~chClosed[c]} :
               /\ ClosedHandlers = {} => sent = {c \in SigCalls : registered[c]}
               /\ chBuf' = [c \in SigCalls |-> IF c \in sent THEN 1 ELSE chBuf[c]]
               /\ process' = IF ClosedHandlers = {} THEN "running" ELSE "panicked"
    /\ UNCHANGED <<stratVars, allVars, runnerVars, retryVars, triggerVars, multiVars, errVars,
                   ambientDone, spc, registered, chClosed, sigCancelled>>

\* The steps of the goroutine launched by call c.
SigGoStep(c) ==
    \/ SigNotify(c)
    \/ SigRecv(c)
    \/ SigParentDone(c)
    \/ SigClose(c)
    \/ SigCancel(c)

SigNext ==
    \/ \E c \in SigCalls : AmbientCancel(c)
    \/ \E c \in SigCalls : SigCall(c)
    \/ \E c \in SigCalls : SigGoStep(c)
    \/ SignalArrives

SigSpec == SigInit /\ [][SigNext]_vars

\* The Go scheduler runs every launched goroutine that can take a step; the
\* callers and the sender of signals are under no obligation.
SigFairness == \A c \in SigCalls : WF_vars(SigGoStep(c))

FairSigSpec == SigSpec /\ SigFairness

\* ------------------------------------------------ claims about the strategies


\* Func t returns by itself (it does not wait for its ctx) and returns nil.
QuickOk(t) == funcs[t].body = "plan" /\ ~funcs[t].blocks /\ funcs[t].err = Nil

\* Func t returns by itself and returns an error.
QuickFailing(t) == funcs[t].body = "plan" /\ ~funcs[t].blocks /\ funcs[t].err # Nil

\* The funcs that have returned an error, in the order in which their
\* goroutines came to report it.
FailedInOrder == SelectSeq(offered, LAMBDA t : fnRet[t] # Nil)

\* C1: CancelOnFirstError over a non-empty list of funcs that all return nil by
\* themselves, under a caller ctx that is never cancelled, eventually returns
\* nil; when it has returned every func has been invoked exactly once and has
\* returned; the derived ctx is not cancelled while no func reported an error.
C1_ReturnsNilWhenAllSucceed ==
    (strategy = "CancelOnFirstError" /\ Len(funcs) >= 1 /\ \A t \in Tasks : QuickOk(t))
        => /\ <>(parentDone \/ (pc = "returned" /\ ret = Nil))
           /\ [](pc = "returned" => \A t \in Tasks : calls[t] = 1 /\ gpc[t] = "done")
           /\ [](pc # "returned" /\ FailedInOrder = <<>> => ~cancelled)

\* C2: CancelOnFirstFinish over a non-empty list, under a caller ctx that is
\* never cancelled, returns eventually once some func has returned, whatever
\* the interleaving of that func and the caller.
C2_ReturnsAfterFirstFinish ==
    (strategy = "CancelOnFirstFinish" /\ Len(funcs) >= 1)
        => ((\E t \in Tasks : gpc[t] \in {"ret", "done"}) ~> (parentDone \/ pc = "returned"))

\* C4: when CancelOnFirstFinish returns under a caller ctx that was not
\* cancelled, it returns the outcome of the func that finished first (the first
\* whose goroutine came to offer its outcome), at most one outcome was accepted
\* on result, and the derived ctx has been cancelled.
C4_ReturnsFirstFinisher ==
    (strategy = "CancelOnFirstFinish" /\ pc = "returned" /\ ~parentDone
            /\ Len(funcs) >= 1)
        => /\ offered # <<>>
           /\ ret = fnRet[Head(offered)]
           /\ Len(accepted) <= 1
           /\ cancelled

\* C5: if some func given to CancelOnFirstError returns an error and the
\* caller's ctx is never cancelled, CancelOnFirstError eventually returns the
\* error of the first func that reported one, with the derived ctx cancelled.
C5_ReturnsFirstError ==
    (strategy = "CancelOnFirstError" /\ \E t \in Tasks : QuickFailing(t))
        => <>(\/ parentDone
              \/ /\ pc = "returned"
                 /\ ret # Nil
                 /\ FailedInOrder # <<>>
                 /\ ret = fnRet[Head(FailedInOrder)]
                 /\ cancelled)

\* The errors an error value holds when it is an aggregate.
ErrorsOf(e) == IF e.kind = "ErrorList" THEN e.list ELSE <<>>

\* The funcs whose run returned an error.
Failing == {t \in Tasks : fnRet[t] # Nil}

\* C9: All over N >= 1 funcs returns only after every func has been invoked
\* exactly once and has returned; it does not cancel the ctx of the funcs
\* before it returns; the aggregate it returns holds exactly one entry per
\* failing func; and it returns nil exactly when no func failed.
C9_AllAggregates ==
    (strategy = "All" /\ Len(funcs) >= 1)
        => /\ pc # "returned" => ~cancelled
           /\ pc = "returned"
                => /\ \A t \in Tasks : calls[t] = 1 /\ gpc[t] = "done"
                   /\ Len(ErrorsOf(ret)) = Cardinality(Failing)
                   /\ {ErrorsOf(ret)[i] : i \in 1 .. Len(ErrorsOf(ret))}
                        = {fnRet[t] : t \in Failing}
                   /\ (ret = Nil <=> Failing = {})

\* C10: when CancelOnFirstFinish or CancelOnFirstError has returned, every
\* goroutine it launched has finished: no func is still executing.
C10_NoTaskOutlivesCall ==
    (strategy \in {"CancelOnFirstFinish", "CancelOnFirstError"} /\ pc = "returned")
        => \A t \in Tasks : gpc[t] = "done"

\* C10 witness: a call over two funcs has returned after both were launched.
C10_Witness ==
    /\ strategy \in {"CancelOnFirstFinish", "CancelOnFirstError"}
    /\ pc = "returned"
    /\ Len(funcs) = 2
    /\ Len(offered) = 2

\* ------------------------------------------------ claims on ConcurrentRunner

\* Run has been called.
RunStarted == funcs = RunFuncs /\ pc # "idle"

\* Run has returned e.
RunReturned(e) == funcs = RunFuncs /\ errsClosed /\ ret = e

\* The fns a worker is executing: fn(ctx) has been entered and has not returned.
Executing == {i \in Adds : wpc[i] = "run"}

\* C3: Run under a ctx that is never cancelled, on a closed runner whose fns all
\* succeed, eventually returns nil once the queue is drained (at once when the
\* runner was closed while empty).
C3_RunReturnsNilWhenDrained ==
    (RunStarted /\ FnsExhausted /\ held = 0 /\ \A i \in Adds : wpc[i] \in {"none", "ok"})
        ~> (parentDone \/ RunReturned(Nil))

\* C6: at most maxConcurrent fns are executing at any time.
C6_AtMostMaxConcurrent == Cardinality(Executing) <= maxConcurrent

\* C6 witness: maxConcurrent fns are executing while the queue consumer holds
\* one more fn and waits for room in limit.
C6_Witness ==
    /\ Cardinality(Executing) = maxConcurrent
    /\ dpc = "limit"
    /\ held # 0

\* C7: while Run is active under a ctx that is never cancelled and no fn fails,
\* every fn Add has enqueued is eventually executed, and no fn is executed more
\* than once.
C7_EveryAcceptedFnRunsOnce ==
    /\ \A i \in Adds : (added[i] = "enqueued" /\ RunStarted) ~> (wcalls[i] >= 1)
    /\ [](\A i \in Adds : wcalls[i] <= 1)

\* C7 witness: every offered fn was enqueued and has been executed once, with
\* the runner closed, the ctx not cancelled and no fn failing.
C7_Witness ==
    /\ RunStarted
    /\ closed
    /\ ~parentDone
    /\ \A i \in Adds : added[i] = "enqueued" /\ wcalls[i] = 1 /\ wpc[i] = "ok"

\* C8: when a fn executed by a worker returns an error and the ctx passed to
\* Run is not cancelled, Run eventually returns an error that carries a fn's
\* error, whether or not the runner has been closed.
C8_RunReturnsWorkerError ==
    \A i \in Adds :
        (wpc[i] = "failed")
            ~> (parentDone \/ (funcs = RunFuncs /\ errsClosed /\ ret.kind = "wrapped"))

\* ----------------------------------- claims about the caller's cancellation

\* Every func returns only after it has seen ctx.Done().
AllBlock == \A t \in Tasks : funcs[t].body = "plan" /\ funcs[t].blocks

\* C11: when the caller's ctx is cancelled before any func of
\* CancelOnFirstFinish has finished, the call returns the cancellation error.
\* With funcs that all wait for ctx.Done() the first cancellation can only be
\* the caller's: cancel() is called after an outcome was received or on return.
C11_ReturnsCancellationError ==
    (strategy = "CancelOnFirstFinish" /\ Len(funcs) > 0 /\ AllBlock /\ pc = "returned")
        => ret = Canceled

\* Every func is planned to return without error.
AllReturnNil == \A t \in Tasks : funcs[t].body = "plan" /\ funcs[t].err = Nil

\* C12: when the caller's ctx is cancelled while CancelOnFirstError runs and
\* every func returns without error, the call returns, and returns nil.
C12_CancelAloneIsNoError ==
    /\ [](strategy = "CancelOnFirstError" /\ AllReturnNil /\ parentDone /\ pc = "returned"
            => ret = Nil)
    /\ (strategy = "CancelOnFirstError" /\ AllReturnNil /\ parentDone)
            ~> (pc = "returned" /\ ret = Nil)

\* C12 witness: a call over two funcs, one of which returns only because the
\* caller's ctx was cancelled, has returned.
C12_Witness ==
    /\ strategy = "CancelOnFirstError" /\ AllReturnNil /\ parentDone
    /\ Len(funcs) = 2 /\ funcs[1].blocks
    /\ pc = "returned"

\* ------------------------------------------------- claims about Sequential

\* The funcs Sequential has invoked and that have not yet returned to it.
SeqRunning == {t \in Tasks : gpc[t] \in {"run", "ret"}}

\* Some func is invoked in this step.
Invoked == \E t \in Tasks : calls'[t] > calls[t]

C14_SequentialReturnsCanceled ==
    (/\ strategy = "Sequential" /\ pc = "returned"
     /\ spawned < Len(funcs)
     /\ spawned > 0 => fnRet[spawned] = Nil)
        => ret = Canceled

\* ------------------------------------------------------ claims about Retry

\* The attempts made so far all failed with an error the predicate accepts.
AllFailedRetryable ==
    /\ fnRet[1] # Nil
    /\ backoff.IsRetryAble # "nil" => \A k \in 1 .. calls[1] : IsRetryAble(TaskErr(k))

\* C15: under a ctx that is never cancelled, Retry invokes fn at most
\* Retries+1 times, invokes it again only after a failed attempt, returns nil
\* when an attempt succeeds, and after Retries+1 failed attempts with retryable
\* errors returns the error of the last one; the Func does return.
C15_AtMostRetriesPlusOne ==
    /\ [](strategy = "Retry" /\ ~parentDone =>
            /\ calls[1] <= backoff.Retries + 1
            /\ (pc = "returned" /\ fnRet[1] = Nil) => ret = Nil /\ calls[1] >= 1
            /\ (pc = "returned" /\ AllFailedRetryable) =>
                    calls[1] = backoff.Retries + 1 /\ ret = TaskErr(calls[1]))
    /\ [][strategy = "Retry" /\ Invoked => calls[1] = 0 \/ fnRet[1] # Nil]_vars
    /\ (strategy = "Retry") ~> (pc = "returned" \/ parentDone)

\* C15 witness: Retries = 2, three failed attempts, the last error returned.
C15_Witness ==
    /\ strategy = "Retry" /\ ~parentDone /\ pc = "returned"
    /\ backoff.Retries = 2 /\ calls[1] = 3 /\ ret = TaskErr(3)

\* The Func returned by Retry stands after an attempt that failed.
AfterFailedAttempt ==
    strategy = "Retry" /\ pc = "attempt" /\ gpc[1] = "ret" /\ fnRet[1] # Nil

\* C16: an error the configured predicate rejects is returned at once, with no
\* further invocation and no wait, whatever Retries is; without a predicate an
\* error is retried as long as counter has not reached Retries.
C16_NonRetryableReturnsAtOnce ==
    [][(AfterFailedAttempt /\ pc' # pc) =>
        /\ (backoff.IsRetryAble # "nil" /\ ~IsRetryAble(fnRet[1])) =>
                pc' = "returned" /\ ret' = fnRet[1] /\ calls' = calls /\ waited' = waited
        /\ (backoff.IsRetryAble = "nil" /\ counter < backoff.Retries) =>
                pc' # "returned" /\ counter' = counter + 1]_vars

\* C16 witness: Retries = 2, the predicate rejects the first error, which is
\* returned after one invocation.
C16_Witness ==
    /\ strategy = "Retry" /\ pc = "returned"
    /\ backoff.Retries = 2 /\ backoff.IsRetryAble = "none" /\ backoff.Delay > 0
    /\ calls[1] = 1 /\ ret = TaskErr(1) /\ waited = <<>>

RECURSIVE FactorPow(_)
FactorPow(n) ==
    IF n = 0 THEN 1
    ELSE (IF backoff.Factor = 0 THEN 1 ELSE backoff.Factor) * FactorPow(n - 1)

\* C18: the wait after the n-th failed attempt (n from 0) lasts
\* Delay * Factor^n, Factor 0 standing for 1; with Delay = 0 nothing is waited.
\* Read when the Func is back at the head of its loop, the last wait complete.
C18_WaitIsDelayTimesFactorPow ==
    (strategy = "Retry" /\ pc = "loop" /\ waited # <<>>) =>
        waited[Len(waited)] = backoff.Delay * FactorPow(Len(waited) - 1)

\* ------------------------------------------------ claims about Close and Add

\* The Close calls that returned nil.
ClosedOk == {c \in Closers : cpc[c] = "returned" /\ cret[c].kind = "nil"}

\* Close call c returns in this step.
CloseReturns(c) == cpc[c] # "returned" /\ cpc'[c] = "returned"

\* C19: the Close that finds the runner open returns nil and closes it; a
\* Close on a closed runner returns "already closed" and leaves the runner
\* closed and the queue as it was; a closed runner stays closed, and of any
\* number of Close calls exactly one returns nil.
C19_CloseOnce ==
    /\ [](Cardinality(ClosedOk) <= 1)
    /\ []((\E c \in Closers : cpc[c] = "returned") => closed /\ Cardinality(ClosedOk) = 1)
    /\ [][\A c \in Closers : CloseReturns(c) =>
            IF closed
            THEN /\ cret'[c].kind = "already closed"
                 /\ closed' /\ fns' = fns /\ fnsClosed' = fnsClosed
            ELSE cret'[c].kind = "nil" /\ closed' /\ fnsClosed']_vars
    /\ [][closed => closed']_vars

\* C19 witness: a second Close has returned "already closed" on a runner whose
\* queue holds a fn.
C19_Witness ==
    /\ \A c \in Closers : cpc[c] = "returned"
    /\ cret[2].kind = "already closed"
    /\ fns # <<>>

\* Add call i begins in this step: it takes the mutex.
AddBegins(i) == apc[i] = "idle" /\ apc'[i] # "idle"

\* The fns that are in the queue, or received from it and not yet launched.
Queued == {fns[k] : k \in 1 .. Len(fns)} \cup {held}

\* C20: an Add that begins on a closed runner returns at once with its fn
\* discarded: the queue is left as it was, nothing panics, and the fn is never
\* in the queue and never executed afterwards.
C20_AddAfterCloseDiscards ==
    /\ [][\A i \in Adds : (AddBegins(i) /\ closed) =>
            /\ apc'[i] = "returned" /\ added'[i] = "discarded"
            /\ fns' = fns /\ mux' = "free"]_vars
    /\ [](\A i \in Adds : added[i] = "discarded" =>
            /\ apc[i] = "returned" /\ i \notin Queued
            /\ wcalls[i] = 0 /\ wpc[i] = "none")

\* C20 witness: a fn added before Close was executed by Run, one added after
\* Close was discarded.
C20_Witness ==
    /\ added[1] = "enqueued" /\ wcalls[1] = 1
    /\ added[2] = "discarded"
    /\ RunStarted

\* ------------------------------------- claims about Run and its cancellation

\* C21: when the ctx passed to Run is cancelled while the runner is open and no
\* fn has failed, Run returns the cancellation error. With the runner open and
\* no failure neither func of Run returns before ctx is cancelled.
C21_RunReturnsCanceled ==
    (funcs = RunFuncs /\ pc = "returned" /\ parentDone /\ ~closed /\ ~SomeFailed)
        => CauseKind(ret) = "canceled"

\* ----------------------------------------------------- claims about Trigger

\* Fire has been called at least once.
Fired == \E f \in Firers : fpc[f] > 0

\* C22: the wait-point of a Trigger is ready exactly when Fire has been called:
\* never before, always after, whoever fires and however often; only one Fire
\* has effect; every waiter of a fired trigger observes it ready, and an
\* observation leaves it ready.
C22_TriggerReadyIffFired ==
    /\ [](strategy = "Trigger" =>
            /\ tdone <=> Fired
            /\ ~Fired => \A w \in Waiters : tseen[w] = 0
            /\ tcloses <= 1)
    /\ [][tdone => tdone']_vars
    /\ \A w \in Waiters : (twpc[w] = "waiting" /\ Fired) ~> (twpc[w] = "idle")

\* C22 witness: two callers have fired, one of them twice, and a waiter has
\* observed the trigger ready twice, the other once.
C22_Witness ==
    /\ strategy = "Trigger"
    /\ fpc[1] = 2 /\ fpc[2] >= 1
    /\ tseen[1] = 2 /\ tseen[2] >= 1

\* ------------------------------------------------ claims about MultiTrigger

\* Every issued handle has been fired at least once.
AllHandlesFired == \A h \in Handles : mfires[h] >= 1

\* C23: the wait-point of a MultiTrigger is ready exactly when every handle
\* issued so far has been fired at least once, in whatever order and however
\* often; the waiter observes it ready only then, so a handle added after the
\* others fired holds the wait-point back until it fires too.
C23_MultiReadyIffAllFired ==
    /\ [](strategy = "MultiTrigger" => (MultiReady <=> AllHandlesFired))
    /\ [][mseen' > mseen => AllHandlesFired]_vars

\* C23 witness: the waiter observed the wait-point ready, then a second handle
\* was added and has not fired: the wait-point is not ready any more, although
\* the first handle was fired twice.
C23_Witness ==
    /\ strategy = "MultiTrigger"
    /\ mseen >= 1
    /\ Len(mdone) = 2 /\ mfires[1] = 2 /\ mfires[2] = 0
    /\ ~MultiReady

\* --------------------------------------------------- claims about ErrorList

\* The constructor has returned.
Built == strategy = "ErrorList" /\ epc \in {"built", "range", "rendered"}

\* C24: an ErrorList built from zero errors, by either constructor, is nil.
C24_ZeroErrorsIsNil ==
    (Built /\ Len(elist.elems) = 0) => elist.isNil

\* The messages of q, separated by ", ".
RECURSIVE Joined(_)
Joined(q) ==
    IF q = <<>> THEN ""
    ELSE IF Len(q) = 1 THEN q[1]
    ELSE q[1] \o ", " \o Joined(Tail(q))

\* C25: Error() returns "errors: [" followed by the messages in insertion
\* order, separated by ", ", followed by "]".
C25_ErrorInBrackets ==
    (strategy = "ErrorList" /\ epc = "rendered" /\ Len(elist.elems) > 0)
        => ebuf = "errors: [" \o Joined(elist.elems) \o "]"

\* ------------------------------------------- claims about the Wait variants

\* The funcs that have returned a non-nil error.
Failed == {t \in Tasks : gpc[t] = "done" /\ fnRet[t] # Nil}

\* The call has returned the aggregate of exactly the errors of the funcs
\* that failed, or no error if none failed.
ReturnsAggregate ==
    IF Failed = {} THEN ret = Nil
    ELSE /\ ret.kind = "ErrorList"
         /\ Len(ret.list) = Cardinality(Failed)
         /\ \A t \in Failed : \E i \in 1 .. Len(ret.list) : ret.list[i] = fnRet[t]

\* The call has returned, and not before each of its funcs has.
ReturnedAfterAll == pc = "returned" /\ Len(funcs) > 0

\* C26: in CancelOnFirstFinishWait the derived ctx is cancelled from the moment
\* the first func has finished; the call returns only when every func has
\* returned, with the aggregate of every non-nil error (the cancellation errors
\* of funcs that obeyed the cancel included), or with no error if there is none.
C26_FinishWaitAggregates ==
    strategy = "CancelOnFirstFinishWait" =>
        /\ (\E t \in Tasks : gpc[t] = "done") => cancelled
        /\ ReturnedAfterAll => (\A t \in Tasks : gpc[t] = "done") /\ ReturnsAggregate

\* C26 witness: a func failed by itself, the other one waited for the cancel and
\* returned the cancellation error; both errors are in the returned aggregate.
C26_Witness ==
    /\ strategy = "CancelOnFirstFinishWait" /\ pc = "returned" /\ ~parentDone
    /\ Len(funcs) = 2 /\ ~funcs[1].blocks /\ funcs[2].blocks
    /\ fnRet[1] = TaskErr(1) /\ fnRet[2] = Canceled
    /\ ret.kind = "ErrorList" /\ ret.list = <<TaskErr(1), Canceled>>

\* C27: in CancelOnFirstErrorWait the derived ctx is cancelled before the
\* return only once a func has returned a non-nil error; the call returns only
\* when every func has returned, with the aggregate of every error; if no func
\* fails, each func was invoked exactly once and the call returns no error,
\* also when the caller cancelled and the funcs returned nil.
C27_ErrorWaitAggregates ==
    strategy = "CancelOnFirstErrorWait" =>
        /\ (cancelled /\ pc # "returned") => Failed # {}
        /\ ReturnedAfterAll =>
              /\ \A t \in Tasks : gpc[t] = "done" /\ calls[t] = 1
              /\ ReturnsAggregate
              /\ (\A t \in Tasks : fnRet[t] = Nil) => ret = Nil

\* C27 witness: a call returns no error after the caller's cancel let its two
\* waiting funcs return nil.
C27_Witness ==
    /\ strategy = "CancelOnFirstErrorWait" /\ pc = "returned" /\ parentDone
    /\ Len(funcs) = 2 /\ funcs[1].blocks /\ funcs[2].blocks
    /\ fnRet[1] = Nil /\ fnRet[2] = Nil /\ ret = Nil

\* ------------------------------------- claims about every execution strategy

\* A step of a strategy: of its caller's goroutine or of one it launched.
StrategyStep ==
    \/ Progress
    \/ WaitJoin
    \/ \E t \in Tasks : WaitDeliver(t)

\* C28: cancellation goes down and never up. Once the caller's ctx is
\* cancelled, the ctx that the funcs were given is done (a func that waits for
\* it can return), and no step of a strategy, its cancel calls included,
\* changes the caller's ctx.
C28_CancelDownNeverUp ==
    /\ [](parentDone => /\ DerivedDone
                        /\ \A t \in Tasks : gpc[t] = "run" => ENABLED TaskReturn(t))
    /\ [][StrategyStep => UNCHANGED parentDone]_vars

\* C28 witness: CancelOnFirstFinish has cancelled its derived ctx and returned,
\* after the first of two funcs finished and the second one obeyed the cancel;
\* the caller's ctx is not cancelled.
C28_Witness ==
    /\ strategy = "CancelOnFirstFinish" /\ pc = "returned"
    /\ Len(funcs) = 2 /\ ~funcs[1].blocks /\ funcs[2].blocks
    /\ cancelled /\ ~parentDone

\* C29: every strategy called with an empty list returns nil at once: its
\* first step is the return, which is ready whether or not the caller's ctx is
\* cancelled; no ctx is derived, no func is launched, nothing is waited for.
C29_EmptyListReturnsNil ==
    /\ []((Len(funcs) = 0 /\ pc = "call") => ENABLED ReturnEmpty)
    /\ [][(Len(funcs) = 0 /\ pc = "call" /\ pc' # pc) =>
             (pc' = "returned" /\ ret' = Nil /\ UNCHANGED <<cancelled, spawned, parentDone>>)]_vars
    /\ []((Len(funcs) = 0 /\ pc = "returned") => (ret = Nil /\ spawned = 0 /\ ~cancelled))

\* C29 witness: Sequential, which otherwise looks at ctx.Done() before each
\* func, has returned nil for the empty list given a cancelled ctx.
C29_Witness ==
    /\ strategy = "Sequential"
    /\ Len(funcs) = 0 /\ parentDone /\ pc = "returned" /\ ret = Nil

\* ----------------------------------------------- claims about ContextWithSig

\* C30: the ctx returned by a call of ContextWithSig is eventually cancelled
\* once the ctx passed to the call is cancelled (before the call or after it)
\* or a termination signal is received; it is not cancelled before one of the
\* two has happened, whatever happens to the ctx of another call.
C30_SigCancelsEventually ==
    /\ \A c \in SigCalls :
          (Returned(c) /\ (ambientDone[c] \/ c \in signalled)) ~> SigCtxDone(c)
    /\ [](\A c \in SigCalls : SigCtxDone(c) => (ambientDone[c] \/ c \in signalled))

\* --------------------------------------------- further claims on Sequential

\* C31: Sequential with one func that waits for ctx.Done() and then returns
\* its own error, and a caller that cancels ctx during the call, returns the
\* cancellation error, whenever the cancel happens.
C31_SequentialCancelWins ==
    (/\ strategy = "Sequential" /\ pc = "returned" /\ parentDone
     /\ Len(funcs) = 1 /\ funcs[1].blocks /\ funcs[1].err = TaskErr(1))
        => ret = Canceled

\* -------------------------------------------------- further claims on Retry

\* C32: with Delay > 0, Retries = 3 and a fn that always fails, DefaultWaiter
\* is called once per retry, three times, and fn four times; the durations
\* passed are Delay each time for Factor 0 and Delay, 3 Delay, 5 Delay for
\* Factor 2.
C32_WaiterCalledPerRetry ==
    (/\ strategy = "Retry" /\ pc = "returned" /\ ~parentDone
     /\ backoff.Delay > 0 /\ backoff.Retries = 3 /\ backoff.IsRetryAble = "nil"
     /\ ret # Nil)
        => /\ calls[1] = 4
           /\ Len(waitArgs) = 3
           /\ backoff.Factor = 0 =>
                 waitArgs = <<backoff.Delay, backoff.Delay, backoff.Delay>>
           /\ backoff.Factor = 2 =>
                 waitArgs = <<backoff.Delay, 3 * backoff.Delay, 5 * backoff.Delay>>

\* ------------------------------------------- further claims on ConcurrentRunner

\* C33: an Add on an open runner whose ctx is cancelled before the enqueue
\* succeeds abandons the add: its fn is never enqueued and never executed.
C33_CancelledAddAbandons ==
    \A i \in Adds : addDone[i] => (added[i] # "enqueued" /\ wcalls[i] = 0)

\* C34: no worker sends the error of its fn on errs after Run has closed errs.
C34_NoSendOnClosedErrs ==
    \A i \in Adds : wpc[i] # "panic"

\* C35: once Run has returned, no fn launched by it is still executing.
C35_RunJoinsWorkers ==
    (funcs = RunFuncs /\ errsClosed) => Executing = {}

\* C36: every Close call returns, whatever the Add calls do.
C36_CloseReturns ==
    \A c \in Closers : <>(cpc[c] = "returned")

\* Add call i sends its fn on c.fns in this step.
AddSends(i) == apc[i] = "select" /\ apc'[i] = "returned" /\ added'[i] # "abandoned"

\* C37: however Add and Close calls interleave, no Add sends on c.fns once
\* Close has closed it, and c.closed and c.fns are each closed once only: they
\* are closed together, from open, and never while an Add is at its send.
C37_NoSendAfterSeal ==
    /\ [](\A i \in Adds : added[i] # "panic")
    /\ [][\A i \in Adds : AddSends(i) => ~fnsClosed /\ ~closed]_vars
    /\ [][(closed' # closed \/ fnsClosed' # fnsClosed) =>
            /\ ~closed /\ ~fnsClosed /\ closed' /\ fnsClosed'
            /\ \A i \in Adds : apc[i] # "select"]_vars

\* C37 witness: on a queue of one, both Adds have enqueued their fn (Run made
\* room for the second), and both Close calls have returned.
C37_Witness ==
    /\ maxConcurrent = 1
    /\ added = <<"enqueued", "enqueued">>
    /\ \A c \in Closers : cpc[c] = "returned"
    /\ closed /\ fnsClosed

\* ------------------------------------------- claims about the result channel

\* The goroutine of func t ends in this step: it has offered its outcome, or
\* has let it go by, and has run its deferred wg.Done().
Delivers(t) == gpc[t] = "ret" /\ gpc'[t] = "done"

\* C38: in CancelOnFirstFinish and CancelOnFirstError no goroutine offers its
\* outcome on result once the call has closed it: every offer is made before
\* the close, and at the close every goroutine has ended.
C38_NoOfferAfterClose ==
    /\ [][(strategy \in {"CancelOnFirstFinish", "CancelOnFirstError"}) =>
            \A t \in Tasks : Delivers(t) => ~resultClosed]_vars
    /\ []((strategy \in {"CancelOnFirstFinish", "CancelOnFirstError"} /\ resultClosed) =>
            \A t \in Tasks : gpc[t] = "done")

\* C38 witness: CancelOnFirstFinish has returned after the caller's cancel with
\* both outcomes offered and none of them received.
C38_Witness ==
    /\ strategy = "CancelOnFirstFinish"
    /\ resultClosed /\ parentDone
    /\ Len(offered) = 2 /\ accepted = <<>>

\* ------------------------------------------ further claims on ContextWithSig

\* C39: os/signal never sends a signal on a signalCh that is closed.
C39_NoSignalOnClosedChannel ==
    process # "panicked"

\* ------------------------------------------- further claims on MultiTrigger

\* C40 as stated: once the wait-point has been ready, every handle issued
\* having fired, it stays ready in every later state.
C40_ReadyForEver ==
    [][(strategy = "MultiTrigger" /\ Len(mdone) > 0 /\ MultiReady) => MultiReady']_vars

\* C40: the wait-point, once ready, stays ready as long as no handle is added,
\* however often handles are fired again; a handle added then has not fired,
\* and the wait-point is not ready until it fires.
C40_ReadyUntilAdd ==
    /\ [][(strategy = "MultiTrigger" /\ MultiReady /\ Len(mdone') = Len(mdone))
             => MultiReady']_vars
    /\ [][(strategy = "MultiTrigger" /\ Len(mdone') > Len(mdone)) => ~MultiReady']_vars

\* C40 witness: the waiter observed the wait-point ready twice, the second
\* time after the handle had been fired again.
C40_Witness ==
    /\ strategy = "MultiTrigger"
    /\ Len(mdone) = 1 /\ mfires[1] = 2 /\ mseen = 2 /\ MultiReady

====
